---- MODULE Spec2Model ----
(***************************************************************************)
(* Halfedge mesh core of the mesh editor: the element model                *)
(* (halfedge_mesh.py), the connectivity builder and OBJ loader             *)
(* (mesh_loader.py) and the global operators (mesh_operations.py).         *)
(*                                                                         *)
(* Objects are modelled by their index in the mesh collection that owns    *)
(* them (mesh.vertices, mesh.edges, mesh.faces, mesh.halfedges); a         *)
(* reference is such an index and None is 0.  No operator removes single   *)
(* elements: collections only grow (builder, triangulate) or are cleared   *)
(* as a whole (subdivisions), so the index is a faithful object identity.  *)
(* Coordinates are exact rationals <<numerator, denominator>>.             *)
(***************************************************************************)
EXTENDS Integers, Sequences, FiniteSets, TLC

\* ------------------------------------------------------------------------
\* Bounds of the model
\* ------------------------------------------------------------------------
\* number of "v" lines of a loaded file
MaxV == 4
\* number of vertex indices on all "f" lines of a loaded file together
MaxHalfedges == 10
\* operators are only started on meshes with at most this many live faces
MaxOpFaces == 4

\* ------------------------------------------------------------------------
\* Exact arithmetic on coordinates and positions
\* ------------------------------------------------------------------------
None == 0

Abs(a) == IF a < 0 THEN -a ELSE a

RECURSIVE GCD(_, _)
GCD(a, b) == IF b = 0 THEN a ELSE GCD(b, a % b)

\* the rational n/d in lowest terms, d > 0
Rat(n, d) ==
    LET g == GCD(Abs(n), Abs(d))
        s == IF d < 0 THEN -1 ELSE 1
    IN  <<(s * n) \div g, (s * d) \div g>>

RAdd(a, b) == Rat(a[1] * b[2] + b[1] * a[2], a[2] * b[2])

RMul(a, b) == Rat(a[1] * b[1], a[2] * b[2])

\* numpy array arithmetic on positions: componentwise
PAdd(p, q) == <<RAdd(p[1], q[1]), RAdd(p[2], q[2]), RAdd(p[3], q[3])>>

PScale(r, p) == <<RMul(r, p[1]), RMul(r, p[2]), RMul(r, p[3])>>

PZero == <<Rat(0, 1), Rat(0, 1), Rat(0, 1)>>

PSub(p, q) == PAdd(p, PScale(Rat(-1, 1), q))

\* np.cross
PCross(a, b) ==
    <<RAdd(RMul(a[2], b[3]), RMul(Rat(-1, 1), RMul(a[3], b[2]))),
      RAdd(RMul(a[3], b[1]), RMul(Rat(-1, 1), RMul(a[1], b[3]))),
      RAdd(RMul(a[1], b[2]), RMul(Rat(-1, 1), RMul(a[2], b[1])))>>

\* the square of np.linalg.norm
NormSquared(a) == RAdd(RMul(a[1], a[1]), RAdd(RMul(a[2], a[2]), RMul(a[3], a[3])))

\* Computed(v) in the test of a loop reads the state v the previous iteration
\* has left, so that it is computed before the next iteration starts
Computed(v) == v = v

\* the running sum of a reduction over positions
RECURSIVE PSumFrom(_, _)
PSumFrom(acc, ps) ==
    IF Computed(acc) /\ ps # <<>>
    THEN PSumFrom(PAdd(acc, Head(ps)), Tail(ps))
    ELSE acc

\* np.sum(positions, axis=0)
PSum(ps) == PSumFrom(PZero, ps)

\* np.mean(positions, axis=0)
PMean(ps) == PScale(Rat(1, Len(ps)), PSum(ps))

Min(a, b) == IF a <= b THEN a ELSE b

Max(a, b) == IF a >= b THEN a ELSE b

\* ------------------------------------------------------------------------
\* Mesh element model (halfedge_mesh.py)
\* ------------------------------------------------------------------------
NewVertex(position) ==
    [position |-> position, halfedge |-> None, deleted |-> FALSE]

NewEdge == [halfedge |-> None]

NewFace == [halfedge |-> None, is_boundary |-> FALSE, deleted |-> FALSE]

NewHalfedge ==
    [next |-> None, twin |-> None, vertex |-> None, edge |-> None, face |-> None]

\* HalfedgeMesh.__init__
EmptyMesh ==
    [vertices |-> <<>>, edges |-> <<>>, faces |-> <<>>, halfedges |-> <<>>,
     boundary_faces |-> <<>>]

add_vertex(m, position) ==
    [m EXCEPT !.vertices = Append(@, NewVertex(position))]

add_edge(m) == [m EXCEPT !.edges = Append(@, NewEdge)]

add_face(m) == [m EXCEPT !.faces = Append(@, NewFace)]

add_halfedge(m) == [m EXCEPT !.halfedges = Append(@, NewHalfedge)]

\* mutation of mark_deleted: the flag is not set
mark_nothing(m, f) == m

mark_deleted(m, f) == [m EXCEPT !.faces[f].deleted = TRUE]

\* ------------------------------------------------------------------------
\* Connectivity builder (MeshLoader._build_halfedge_connectivity)
\*
\* The loops of the code are recursive operators over the loop's state.
\* Then(v, F) is F(v) with v computed first and once.
\* ------------------------------------------------------------------------
Then(v, F(_)) == IF Computed(v) THEN F(v) ELSE F(v)

max_iterations == 1000

\* edge_key = (min(id(v_curr), id(v_next)), max(id(v_curr), id(v_next)))
EdgeKey(v_curr, v_next) == <<Min(v_curr, v_next), Max(v_curr, v_next)>>

\* position of a key in the insertion-ordered dict edge_halfedges, 0 if absent
KeyIndex(d, key) ==
    IF \E i \in 1..Len(d) : d[i].key = key
    THEN CHOOSE i \in 1..Len(d) : d[i].key = key
    ELSE 0

\* mutation of NextInLoop: h.next = halfedges[i], every halfedge its own next
NextInLoopSelf(base, n, i) == base + i

\* halfedges[(i + 1) % len(halfedges)] for the 1-based position i of a face
\* whose halfedges are base+1 .. base+n
NextInLoop(base, n, i) == base + (i % n) + 1

\* "h.vertex = v_next; h.next = ...; h.face = f"
SetLoopFields(m, h, v_next, h_next, f) ==
    [m EXCEPT !.halfedges[h].vertex = v_next,
              !.halfedges[h].next = h_next,
              !.halfedges[h].face = f]

\* "if edge_key not in edge_halfedges": a new edge for h
NewEdgeFor(st, h, edge_key) ==
    [m |-> [add_edge(st.m) EXCEPT !.halfedges[h].edge = Len(st.m.edges) + 1,
                                  !.edges[Len(st.m.edges) + 1].halfedge = h],
     eh |-> Append(st.eh, [key |-> edge_key, hs |-> <<h>>])]

\* "else": h and the first halfedge recorded for the key, entry k of the
\* dict, are made twins
TwinWithFirst(st, h, k) ==
    [m |-> [st.m EXCEPT !.halfedges[h].twin = st.eh[k].hs[1],
                        !.halfedges[st.eh[k].hs[1]].twin = h,
                        !.halfedges[h].edge = st.m.halfedges[st.eh[k].hs[1]].edge],
     eh |-> [st.eh EXCEPT ![k].hs = Append(@, h)]]

\* "Create or find edge"
SetEdge(st, h, edge_key, k) ==
    IF k = 0 THEN NewEdgeFor(st, h, edge_key) ELSE TwinWithFirst(st, h, k)

\* "if not v_curr.halfedge: v_curr.halfedge = h"
SetVertexHalfedge(st, v_curr, h) ==
    [st EXCEPT !.m.vertices[v_curr].halfedge = IF @ = None THEN h ELSE @]

\* one iteration of the "Set up connectivity" loop: st = [m, eh] where eh is
\* the dict edge_halfedges, fv the vertex loop, f the face, h = base + i
ConnectHalfedge(st, fv, f, base, i) ==
    LET n == Len(fv)
        h == base + i
        v_curr == fv[i]
        v_next == fv[(i % n) + 1]
        edge_key == EdgeKey(v_curr, v_next)
    IN  SetVertexHalfedge(
            SetEdge([m |-> SetLoopFields(st.m, h, v_next, NextInLoop(base, n, i), f),
                     eh |-> st.eh],
                    h, edge_key, KeyIndex(st.eh, edge_key)),
            v_curr, h)

RECURSIVE ConnectLoop(_, _, _, _, _)
ConnectLoop(st, fv, f, base, i) ==
    IF Computed(st) /\ i <= Len(fv)
    THEN ConnectLoop(ConnectHalfedge(st, fv, f, base, i), fv, f, base, i + 1)
    ELSE st

RECURSIVE AddHalfedges(_, _)
AddHalfedges(m, n) ==
    IF Computed(m) /\ n > 0 THEN AddHalfedges(add_halfedge(m), n - 1) ELSE m

\* "f.halfedge = halfedges[0]"
SetFaceHalfedge(st, f, h) == [st EXCEPT !.m.faces[f].halfedge = h]

\* body of "for face_vertices in faces"
BuildFace(st, fv) ==
    IF Len(fv) < 3 THEN st
    ELSE SetFaceHalfedge(
             ConnectLoop([m |-> AddHalfedges(add_face(st.m), Len(fv)), eh |-> st.eh],
                         fv, Len(st.m.faces) + 1, Len(st.m.halfedges), 1),
             Len(st.m.faces) + 1, Len(st.m.halfedges) + 1)

RECURSIVE BuildFaces(_, _)
BuildFaces(st, fs) ==
    IF Computed(st) /\ fs # <<>>
    THEN BuildFaces(BuildFace(st, Head(fs)), Tail(fs))
    ELSE st

\* the search "while prev_h.next != h and iterations < max_iterations"
RECURSIVE FindPrev(_, _, _, _)
FindPrev(m, h, prev_h, iterations) ==
    IF m.halfedges[prev_h].next # h /\ iterations < max_iterations
    THEN FindPrev(m, h, m.halfedges[prev_h].next, iterations + 1)
    ELSE [prev_h |-> prev_h, iterations |-> iterations]

\* mutation of BoundaryVertex: the target of h whatever the search gave
TargetOfLone(m, h, pr) == m.halfedges[h].vertex

\* h_boundary.vertex: the target of the halfedge before h, or of h itself
\* when the search gave up
BoundaryVertex(m, h, pr) ==
    IF pr.iterations >= max_iterations
    THEN m.halfedges[h].vertex
    ELSE m.halfedges[pr.prev_h].vertex

\* the boundary halfedge h_boundary and the boundary face f_boundary of h
BoundaryOf(m, h, h_boundary, f_boundary, h_boundary_vertex) ==
    [add_face(add_halfedge(m)) EXCEPT
        !.halfedges[h_boundary].twin = h,
        !.halfedges[h].twin = h_boundary,
        !.halfedges[h_boundary].vertex = h_boundary_vertex,
        !.halfedges[h_boundary].edge = m.halfedges[h].edge,
        !.halfedges[h_boundary].next = h_boundary,
        !.halfedges[h_boundary].face = f_boundary,
        !.faces[f_boundary].is_boundary = TRUE,
        !.boundary_faces = Append(@, f_boundary)]

\* body of "if len(halfedges_list) == 1"
AddBoundary(m, h) ==
    BoundaryOf(m, h, Len(m.halfedges) + 1, Len(m.faces) + 1,
               BoundaryVertex(m, h, FindPrev(m, h, h, 0)))

\* "for edge_key, halfedges_list in edge_halfedges.items()"
RECURSIVE HandleBoundary(_, _, _)
HandleBoundary(m, eh, k) ==
    IF Computed(m) /\ k <= Len(eh)
    THEN HandleBoundary(IF Len(eh[k].hs) = 1 THEN AddBoundary(m, eh[k].hs[1]) ELSE m,
                        eh, k + 1)
    ELSE m

\* the second pass, over the dict the first pass has filled
BoundaryPass(st) == HandleBoundary(st.m, st.eh, 1)

build_halfedge_connectivity(bmesh, bfaces) ==
    BoundaryPass(BuildFaces([m |-> bmesh, eh |-> <<>>], bfaces))

\* ------------------------------------------------------------------------
\* Queries (halfedge_mesh.py)
\* ------------------------------------------------------------------------
Range(s) == {s[i] : i \in DOMAIN s}

\* the halfedges visited by "walk next from face.halfedge until back at the
\* start"; the loop of the code does not return when next never leads back
\* to the start, the walk is then cut after more steps than halfedges exist
RECURSIVE FaceWalk(_, _, _, _)
FaceWalk(m, start, cur, acc) ==
    IF cur = None \/ m.halfedges[cur].vertex = None THEN acc
    ELSE IF m.halfedges[cur].next = start \/ Len(acc) >= Len(m.halfedges)
    THEN Append(acc, cur)
    ELSE FaceWalk(m, start, m.halfedges[cur].next, Append(acc, cur))

\* the targets of a list of halfedges
TargetsOf(m, hs) == [i \in 1..Len(hs) |-> m.halfedges[hs[i]].vertex]

\* the positions of a list of vertices
PositionsOf(m, vs) == [i \in 1..Len(vs) |-> m.vertices[vs[i]].position]

Face_vertices(m, f) ==
    IF m.faces[f].halfedge = None THEN <<>>
    ELSE TargetsOf(m, FaceWalk(m, m.faces[f].halfedge, m.faces[f].halfedge, <<>>))

\* the halfedges visited by the walk of Face.edges: it stops at a halfedge
\* without an edge, and is cut like FaceWalk when next never leads back
RECURSIVE EdgeWalk(_, _, _, _)
EdgeWalk(m, start, cur, acc) ==
    IF cur = None \/ m.halfedges[cur].edge = None THEN acc
    ELSE IF m.halfedges[cur].next = start \/ Len(acc) >= Len(m.halfedges)
    THEN Append(acc, cur)
    ELSE EdgeWalk(m, start, m.halfedges[cur].next, Append(acc, cur))

\* mutation of Face_edges: the edge of the halfedge after the visited one
ShiftedEdges(m, f) ==
    IF m.faces[f].halfedge = None THEN <<>>
    ELSE [i \in 1..Len(EdgeWalk(m, m.faces[f].halfedge, m.faces[f].halfedge, <<>>)) |->
             m.halfedges[m.halfedges[EdgeWalk(m, m.faces[f].halfedge,
                 m.faces[f].halfedge, <<>>)[i]].next].edge]

\* Face.edges: h.edge of every halfedge of the walk
Face_edges(m, f) ==
    IF m.faces[f].halfedge = None THEN <<>>
    ELSE [i \in 1..Len(EdgeWalk(m, m.faces[f].halfedge, m.faces[f].halfedge, <<>>)) |->
             m.halfedges[EdgeWalk(m, m.faces[f].halfedge,
                 m.faces[f].halfedge, <<>>)[i]].edge]

\* Edge.vertices: (h.twin.vertex, h.vertex) of the halfedge h of the edge
Edge_vertices(m, e) ==
    IF m.edges[e].halfedge = None \/ m.halfedges[m.edges[e].halfedge].twin = None
    THEN <<None, None>>
    ELSE <<m.halfedges[m.halfedges[m.edges[e].halfedge].twin].vertex,
           m.halfedges[m.edges[e].halfedge].vertex>>

\* does the walk of Face.vertices come back to its start or reach a break
FaceWalkReturns(m, f) == Len(Face_vertices(m, f)) <= Len(m.halfedges)

\* mutation of Face_area: one triangle of norm 1 whatever the face
UnitArea(m, f) == <<Rat(1, 1)>>

\* Face.area: a square root is not a rational, so the area is held as the
\* list of the squared norms of the cross products of the fan; the float
\* returned is 0.0 plus 0.5 * sqrt(r) for each entry r, and the early
\* "return 0.0" of a face with fewer than 3 vertices is the empty list
Face_area(m, f) ==
    IF Len(Face_vertices(m, f)) < 3 THEN <<>>
    ELSE [i \in 1..(Len(Face_vertices(m, f)) - 2) |->
            NormSquared(PCross(
                PSub(PositionsOf(m, Face_vertices(m, f))[i + 1],
                     PositionsOf(m, Face_vertices(m, f))[1]),
                PSub(PositionsOf(m, Face_vertices(m, f))[i + 2],
                     PositionsOf(m, Face_vertices(m, f))[1])))]

\* the orbit of h -> h.twin.next from a start halfedge, shared by
\* Vertex.degree, Vertex.neighbors and Vertex.faces.  status is "returned"
\* when the walk comes back to the start, "diverges" when it reaches a
\* halfedge it has already left that is not the start (the loop then cycles
\* forever without meeting its exit test) and "no_twin" at a missing twin.
RECURSIVE TwinNextOrbit(_, _, _, _)
TwinNextOrbit(m, start, h, acc) ==
    LET t == m.halfedges[h].twin
        nxt == m.halfedges[t].next
    IN  IF t = None THEN [hs |-> Append(acc, h), status |-> "no_twin"]
        ELSE IF nxt = start THEN [hs |-> Append(acc, h), status |-> "returned"]
        ELSE IF nxt = None THEN [hs |-> Append(acc, h), status |-> "no_twin"]
        ELSE IF nxt = h \/ nxt \in Range(acc)
        THEN [hs |-> Append(acc, h), status |-> "diverges"]
        ELSE TwinNextOrbit(m, start, nxt, Append(acc, h))

VertexOrbit(m, v) ==
    TwinNextOrbit(m, m.vertices[v].halfedge, m.vertices[v].halfedge, <<>>)

\* Vertex.degree: the value returned when the walk returns
Vertex_degree(m, v) ==
    IF m.vertices[v].halfedge = None THEN 0 ELSE Len(VertexOrbit(m, v).hs)

\* Vertex.neighbors: the list returned when the walk returns
Vertex_neighbors(m, v) ==
    IF m.vertices[v].halfedge = None THEN <<>>
    ELSE TargetsOf(m, VertexOrbit(m, v).hs)

\* Vertex.faces: the faces of the halfedges of the walk that are not
\* boundary faces, one entry for each such halfedge
Vertex_faces(m, v) ==
    IF m.vertices[v].halfedge = None THEN <<>>
    ELSE SelectSeq([i \in 1..Len(VertexOrbit(m, v).hs) |->
                       m.halfedges[VertexOrbit(m, v).hs[i]].face],
                   LAMBDA f : f # None /\ ~m.faces[f].is_boundary)

\* does the call return (degree, neighbors and faces walk the same orbit)
VertexWalkReturns(m, v) ==
    m.vertices[v].halfedge = None \/ VertexOrbit(m, v).status = "returned"

\* faces that are neither deleted nor boundary
LiveFaces(m) ==
    {f \in 1..Len(m.faces) : ~m.faces[f].deleted /\ ~m.faces[f].is_boundary}

\* ------------------------------------------------------------------------
\* Operators (mesh_operations.py)
\* ------------------------------------------------------------------------
\* mutation of FanTriangles: a strip [v[i-1], v[i], v[i+1]] without the pivot
StripTriangles(vs) ==
    [i \in 1..(Len(vs) - 2) |-> <<vs[i], vs[i + 1], vs[i + 2]>>]

\* the fan "for i in range(1, n - 1): [v0, vertices[i], vertices[i + 1]]"
FanTriangles(vs) ==
    [i \in 1..(Len(vs) - 2) |-> <<vs[1], vs[i + 1], vs[i + 2]>>]

\* body of "for face in self.mesh.faces" of triangulate, vs = face.vertices()
TriangulateFace(m, f, acc, vs) ==
    IF m.faces[f].deleted \/ m.faces[f].is_boundary THEN acc
    ELSE IF Len(vs) > 3
    THEN [faces_to_delete |-> Append(acc.faces_to_delete, f),
          new_triangles |-> acc.new_triangles \o FanTriangles(vs),
          triangulated_count |-> acc.triangulated_count + 1]
    ELSE acc

\* the loop "for face in self.mesh.faces" of triangulate
RECURSIVE TriangulateScan(_, _, _)
TriangulateScan(m, f, acc) ==
    IF Computed(acc) /\ f <= Len(m.faces)
    THEN TriangulateScan(m, f + 1, TriangulateFace(m, f, acc, Face_vertices(m, f)))
    ELSE acc

RECURSIVE MarkAll(_, _)
MarkAll(m, fs) ==
    IF Computed(m) /\ fs # <<>>
    THEN MarkAll(mark_deleted(m, Head(fs)), Tail(fs))
    ELSE m

\* what triangulate does with the result tr of its scan
TriangulateApply(m, tr) ==
    IF tr.triangulated_count = 0
    THEN [mesh |-> m, outcome |-> "returned", ret |-> 0,
          built |-> <<>>, base |-> Len(m.faces)]
    ELSE [mesh |-> build_halfedge_connectivity(MarkAll(m, tr.faces_to_delete),
                                               tr.new_triangles),
          outcome |-> "returned", ret |-> tr.triangulated_count,
          built |-> tr.new_triangles, base |-> Len(m.faces)]

\* MeshOperations.triangulate: the mesh it leaves, its return value and the
\* face list it hands to the builder (built, for faces from index base + 1)
triangulate(m) ==
    TriangulateApply(m, TriangulateScan(m, 1, [faces_to_delete |-> <<>>,
                                               new_triangles |-> <<>>,
                                               triangulated_count |-> 0]))

\* the entry of old_faces_data for face f of subdivide_linear, if any;
\* vs = face.vertices()
LinearFaceData(m, f, vs) ==
    IF m.faces[f].deleted \/ m.faces[f].is_boundary \/ Len(vs) < 3
    THEN <<>>
    ELSE <<PositionsOf(m, vs)>>

\* old_faces_data of subdivide_linear: the vertex positions of every face
\* that is not deleted, not boundary and has at least 3 vertices
RECURSIVE LinearFacesData(_, _)
LinearFacesData(m, f) ==
    IF f > Len(m.faces) THEN <<>>
    ELSE LinearFaceData(m, f, Face_vertices(m, f)) \o LinearFacesData(m, f + 1)

\* mutation of get_or_create_vertex: a new entry for every request
create_vertex(ptv, position) == Append(ptv, position)

\* get_or_create_vertex on the insertion-ordered dict position_to_vertex
get_or_create_vertex(ptv, position) ==
    IF position \in Range(ptv) THEN ptv ELSE Append(ptv, position)

RECURSIVE GetOrCreateAll(_, _)
GetOrCreateAll(ptv, ps) ==
    IF Computed(ptv) /\ ps # <<>>
    THEN GetOrCreateAll(get_or_create_vertex(ptv, Head(ps)), Tail(ps))
    ELSE ptv

\* (v_curr + v_next) / 2.0
Midpoint(p, q) == PScale(Rat(1, 2), PAdd(p, q))

\* the midpoints of the edges i -> i+1 of a face
EdgeMidpoints(vertices_pos) ==
    [i \in 1..Len(vertices_pos) |->
        Midpoint(vertices_pos[i], vertices_pos[(i % Len(vertices_pos)) + 1])]

\* mutation of SubFaces: "for i in range(n - 1)", the last corner is left out
SubFacesButLast(vertices_pos, edge_midpoints, face_center) ==
    [i \in 1..(Len(vertices_pos) - 1) |->
        <<vertices_pos[i], edge_midpoints[i], face_center,
          edge_midpoints[((i + Len(vertices_pos) - 2) % Len(vertices_pos)) + 1]>>]

\* "for i in range(n)": the sub-face [v_curr, mid_curr, center, mid_prev] of
\* every corner
SubFaces(vertices_pos, edge_midpoints, face_center) ==
    [i \in 1..Len(vertices_pos) |->
        <<vertices_pos[i], edge_midpoints[i], face_center,
          edge_midpoints[((i + Len(vertices_pos) - 2) % Len(vertices_pos)) + 1]>>]

\* one old face with its centroid and edge midpoints: the positions are
\* looked up or created (centroid, midpoints, corners), one sub-face per
\* corner is added
LinearFaceWith(st, vertices_pos, edge_midpoints, face_center) ==
    [ptv |-> GetOrCreateAll(st.ptv,
                 <<face_center>> \o edge_midpoints \o vertices_pos),
     new_faces |-> st.new_faces
                       \o SubFaces(vertices_pos, edge_midpoints, face_center)]

\* body of "for face_data in old_faces_data"
LinearFace(st, vertices_pos) ==
    LinearFaceWith(st, vertices_pos, EdgeMidpoints(vertices_pos),
                   PMean(vertices_pos))

RECURSIVE LinearFaces(_, _)
LinearFaces(st, fd) ==
    IF Computed(st) /\ fd # <<>>
    THEN LinearFaces(LinearFace(st, Head(fd)), Tail(fd))
    ELSE st

\* vertex_map[tuple(pos)]: the vertex created for a position
RECURSIVE PosIndex(_, _, _)
PosIndex(ptv, position, i) ==
    IF i > Len(ptv) THEN None
    ELSE IF ptv[i] = position THEN i
    ELSE PosIndex(ptv, position, i + 1)

\* a mesh cleared and refilled with one new vertex per position
MeshOfPositions(ps) ==
    [EmptyMesh EXCEPT !.vertices = [i \in 1..Len(ps) |-> NewVertex(ps[i])]]

\* new_faces_vertices: the sub-faces as lists of the new vertices
NewFacesVertices(ptv, new_faces) ==
    [k \in 1..Len(new_faces) |->
        [j \in 1..4 |-> PosIndex(ptv, new_faces[k][j], 1)]]

\* a cleared mesh with new vertices handed to the builder with new faces
Rebuilt(bmesh, bfaces) ==
    [mesh |-> build_halfedge_connectivity(bmesh, bfaces), outcome |-> "returned",
     ret |-> TRUE, built |-> bfaces, base |-> 0]

\* mutation of NoEligibleFaces: the early return is never taken
NeverEmpty(old_faces_data) == FALSE

\* "if len(old_faces_data) == 0: return False"
NoEligibleFaces(old_faces_data) == Len(old_faces_data) = 0

\* subdivide_linear from the positions and sub-faces ls it has collected
LinearRebuild(ls) ==
    Rebuilt(MeshOfPositions(ls.ptv), NewFacesVertices(ls.ptv, ls.new_faces))

\* subdivide_linear from its old_faces_data
LinearApply(m, old_faces_data) ==
    IF NoEligibleFaces(old_faces_data)
    THEN [mesh |-> m, outcome |-> "returned", ret |-> FALSE,
          built |-> <<>>, base |-> Len(m.faces)]
    ELSE LinearRebuild(LinearFaces([ptv |-> <<>>, new_faces |-> <<>>],
                                   old_faces_data))

\* MeshOperations.subdivide_linear
subdivide_linear(m) == LinearApply(m, LinearFacesData(m, 1))

\* mutation of LoopValid: the validation accepts every mesh
AlwaysValid(m) == TRUE

\* "for face in self.mesh.faces: ... if len(face.vertices()) != 3: return False"
LoopValid(m) == \A f \in LiveFaces(m) : Len(Face_vertices(m, f)) = 3

\* the entry of old_faces_data for face f of subdivide_loop, if any
LoopFaceData(m, f) ==
    IF m.faces[f].deleted \/ m.faces[f].is_boundary THEN <<>>
    ELSE <<PositionsOf(m, Face_vertices(m, f))>>

\* old_faces_data of subdivide_loop: the vertex positions of every live face
RECURSIVE LoopFacesData(_, _)
LoopFacesData(m, f) ==
    IF f > Len(m.faces) THEN <<>>
    ELSE LoopFaceData(m, f) \o LoopFacesData(m, f + 1)

\* the entry of old_vertices_data for vertex v, if any
LoopVertexData(m, v) ==
    IF m.vertices[v].deleted THEN <<>>
    ELSE <<[position |-> m.vertices[v].position,
            neighbors |-> PositionsOf(m, Vertex_neighbors(m, v)),
            valence |-> Vertex_degree(m, v)]>>

\* old_vertices_data: position, neighbour positions and valence of every
\* vertex that is not deleted
RECURSIVE LoopVerticesData(_, _)
LoopVerticesData(m, v) ==
    IF v > Len(m.vertices) THEN <<>>
    ELSE LoopVertexData(m, v) \o LoopVerticesData(m, v + 1)

\* edge_key = tuple(sorted([tuple(v1), tuple(v2)])): the unordered pair of
\* the two positions
LoopEdgeKey(v1, v2) == {v1, v2}

\* one pass of "for i in range(3)" over the insertion-ordered dict edge_map,
\* lk the entry of the key or 0
LoopEdgeAt(em, lk, v1, v2, v_opp) ==
    IF lk = 0
    THEN Append(em, [key |-> LoopEdgeKey(v1, v2), vertices |-> <<v1, v2>>,
                     opposites |-> <<v_opp>>, faces |-> 1])
    ELSE [em EXCEPT ![lk].opposites = Append(@, v_opp),
                    ![lk].faces = @ + 1]

LoopEdge(em, v1, v2, v_opp) ==
    LoopEdgeAt(em, KeyIndex(em, LoopEdgeKey(v1, v2)), v1, v2, v_opp)

\* "for i in range(3)" for one face
LoopEdges(em, verts) ==
    LoopEdge(LoopEdge(LoopEdge(em, verts[1], verts[2], verts[3]),
                      verts[2], verts[3], verts[1]),
             verts[3], verts[1], verts[2])

RECURSIVE LoopEdgeMap(_, _)
LoopEdgeMap(em, fd) ==
    IF Computed(em) /\ fd # <<>>
    THEN LoopEdgeMap(LoopEdges(em, Head(fd)), Tail(fd))
    ELSE em

\* edge_vertex_positions[edge_key]
LoopEdgePosition(edge_data) ==
    IF edge_data.faces = 2
    THEN PAdd(PScale(Rat(3, 8), PAdd(edge_data.vertices[1], edge_data.vertices[2])),
              PScale(Rat(1, 8), PAdd(edge_data.opposites[1], edge_data.opposites[2])))
    ELSE Midpoint(edge_data.vertices[1], edge_data.vertices[2])

\* new_vertex_positions entry of an old vertex
LoopVertexPosition(vertex_data) ==
    LET n == vertex_data.valence
        beta == IF n = 3 THEN Rat(3, 16) ELSE Rat(3, 8 * n)
    IN  IF n = 0 THEN vertex_data.position
        ELSE PAdd(PScale(RAdd(Rat(1, 1), RMul(Rat(-n, 1), beta)), vertex_data.position),
                  PScale(beta, PSum(vertex_data.neighbors)))

\* old_vertex_map[tuple(v)]: the vertex added last for an old position
RECURSIVE OldVertexIndex(_, _, _)
OldVertexIndex(ovd, position, i) ==
    IF i = 0 THEN None
    ELSE IF ovd[i].position = position THEN i
    ELSE OldVertexIndex(ovd, position, i - 1)

\* "Pattern: 3 corner triangles + 1 center triangle"
LoopTriangles(corners, edge_verts) ==
    << <<corners[1], edge_verts[1], edge_verts[3]>>,
       <<corners[2], edge_verts[2], edge_verts[1]>>,
       <<corners[3], edge_verts[3], edge_verts[2]>>,
       <<edge_verts[1], edge_verts[2], edge_verts[3]>> >>

\* the four triangles emitted for one old triangle; the edge vertices are
\* added after the Len(ovd) old vertices, in the order of edge_map
LoopFace(ovd, em, verts) ==
    LoopTriangles(
        [i \in 1..3 |-> OldVertexIndex(ovd, verts[i], Len(ovd))],
        [i \in 1..3 |->
            Len(ovd) + KeyIndex(em, LoopEdgeKey(verts[i], verts[(i % 3) + 1]))])

RECURSIVE LoopNewFaces(_, _, _)
LoopNewFaces(ovd, em, fd) ==
    IF fd = <<>> THEN <<>>
    ELSE LoopFace(ovd, em, Head(fd)) \o LoopNewFaces(ovd, em, Tail(fd))

\* the new positions: old vertices first, then one vertex per edge
LoopNewPositions(ovd, edge_map) ==
    [i \in 1..Len(ovd) |-> LoopVertexPosition(ovd[i])]
    \o [k \in 1..Len(edge_map) |-> LoopEdgePosition(edge_map[k])]

\* subdivide_loop from its old_faces_data, old_vertices_data and edge_map
LoopRebuild(old_faces, ovd, edge_map) ==
    Then(LoopNewPositions(ovd, edge_map),
         LAMBDA new_positions :
             Rebuilt(MeshOfPositions(new_positions),
                     LoopNewFaces(ovd, edge_map, old_faces)))

\* subdivide_loop after its validation.  outcome is "hang" when a call of
\* vertex.neighbors() / vertex.degree() at the collection of
\* old_vertices_data does not return: the operator then never returns and
\* the mesh stays as it was.
LoopApply(m, old_faces) ==
    IF Len(old_faces) = 0
    THEN [mesh |-> m, outcome |-> "returned", ret |-> FALSE,
          built |-> <<>>, base |-> Len(m.faces)]
    ELSE IF \E v \in 1..Len(m.vertices) :
                ~m.vertices[v].deleted /\ ~VertexWalkReturns(m, v)
    THEN [mesh |-> m, outcome |-> "hang", ret |-> None,
          built |-> <<>>, base |-> Len(m.faces)]
    ELSE Then(LoopVerticesData(m, 1),
              LAMBDA ovd :
                  Then(LoopEdgeMap(<<>>, old_faces),
                       LAMBDA edge_map : LoopRebuild(old_faces, ovd, edge_map)))

\* MeshOperations.subdivide_loop
subdivide_loop(m) ==
    IF ~LoopValid(m)
    THEN [mesh |-> m, outcome |-> "returned", ret |-> FALSE,
          built |-> <<>>, base |-> Len(m.faces)]
    ELSE LoopApply(m, LoopFacesData(m, 1))

\* MeshOperations.subdivide_catmull_clark raises NotImplementedError
subdivide_catmull_clark(m) ==
    [mesh |-> m, outcome |-> "raised", ret |-> None,
     built |-> <<>>, base |-> Len(m.faces)]

\* ------------------------------------------------------------------------
\* OBJ loader (MeshLoader.load_obj)
\* ------------------------------------------------------------------------
\* the vertices of an "f" line whose index is in range
RECURSIVE FaceOfLine(_, _)
FaceOfLine(parts, nv) ==
    IF parts = <<>> THEN <<>>
    ELSE (IF 0 <= Head(parts) - 1 /\ Head(parts) - 1 < nv
          THEN <<Head(parts)>> ELSE <<>>)
         \o FaceOfLine(Tail(parts), nv)

\* "if len(face_vertices) >= 3: faces.append(face_vertices)"
KeepFace(face_vertices) ==
    IF Len(face_vertices) >= 3 THEN <<face_vertices>> ELSE <<>>

RECURSIVE FacesOfLines(_, _)
FacesOfLines(flines, nv) ==
    IF flines = <<>> THEN <<>>
    ELSE KeepFace(FaceOfLine(Head(flines), nv)) \o FacesOfLines(Tail(flines), nv)

\* a file is its "v" lines followed by its "f" lines
load_obj(file) ==
    Rebuilt(MeshOfPositions(file.v), FacesOfLines(file.f, Len(file.v)))

\* ------------------------------------------------------------------------
\* OBJ export (MeshLoader.save_obj) and the text of a file
\*
\* A coordinate is written with 6 decimals; the text "4.666667" is held as
\* the integer 4666667, the number of units of 10^-6 it denotes.
\* ------------------------------------------------------------------------
\* the number of decimals of the format ".6f"
Decimals == 6

Scale == 10 ^ Decimals

\* long division: k more decimals of r / d, after the decimals acc
RECURSIVE Digits(_, _, _, _)
Digits(r, d, k, acc) ==
    IF k = 0 THEN [value |-> acc, rem |-> r]
    ELSE Digits((r * 10) % d, d, k - 1, acc * 10 + ((r * 10) \div d))

\* x cut after its 6th decimal, and what is left of it (rem / x[2] units)
Floor6(x) ==
    [value |-> (x[1] \div x[2]) * Scale + Digits(x[1] % x[2], x[2], Decimals, 0).value,
     rem |-> Digits(x[1] % x[2], x[2], Decimals, 0).rem]

\* mutation of FormatCoordinate: the decimals are dropped
FormatUnits(x) == (x[1] \div x[2]) * Scale

\* f"{x:.6f}": x rounded to the nearest multiple of 10^-6, a tie to the even
FormatCoordinate(x) ==
    IF \/ 2 * Floor6(x).rem > x[2]
       \/ 2 * Floor6(x).rem = x[2] /\ Floor6(x).value % 2 = 1
    THEN Floor6(x).value + 1
    ELSE Floor6(x).value

\* float(parts[i]) of a coordinate written with 6 decimals
ParseCoordinate(t) == Rat(t, Scale)

\* the vertices that get a "v" line, in the order of mesh.vertices
WrittenVertices(m) ==
    SelectSeq([v \in 1..Len(m.vertices) |-> v], LAMBDA v : ~m.vertices[v].deleted)

\* vertex_index[v]: idx counts the vertices written so far, from 1
VertexIndex(m, v) == Cardinality({u \in 1..v : ~m.vertices[u].deleted})

\* the "v" lines
WrittenVLines(m) ==
    [k \in 1..Len(WrittenVertices(m)) |->
        [c \in 1..3 |->
            FormatCoordinate(m.vertices[WrittenVertices(m)[k]].position[c])]]

\* the faces that get an "f" line, in the order of mesh.faces
WrittenFaces(m) ==
    SelectSeq([f \in 1..Len(m.faces) |-> f],
              LAMBDA f : /\ ~m.faces[f].deleted
                         /\ ~m.faces[f].is_boundary
                         /\ Len(Face_vertices(m, f)) >= 3)

\* the "f" line of face f
WrittenFLine(m, f) ==
    [i \in 1..Len(Face_vertices(m, f)) |-> VertexIndex(m, Face_vertices(m, f)[i])]

\* the text save_obj writes; it returns True
save_obj(m) ==
    [v |-> WrittenVLines(m),
     f |-> [k \in 1..Len(WrittenFaces(m)) |-> WrittenFLine(m, WrittenFaces(m)[k])]]

\* the "v" and "f" lines load_obj reads from a text
ReadText(text) ==
    [v |-> [i \in 1..Len(text.v) |-> [c \in 1..3 |-> ParseCoordinate(text.v[i][c])]],
     f |-> text.f]

\* ------------------------------------------------------------------------
\* Bounding box (HalfedgeMesh.bbox) and the cube (PrimitiveGenerator)
\* ------------------------------------------------------------------------
\* a < b on rationals in lowest terms with positive denominators
RLess(a, b) == a[1] * b[2] < b[1] * a[2]

\* np.min / np.max of the finite non-empty set S of coordinates
RMinOf(S) == CHOOSE x \in S : \A y \in S : ~RLess(y, x)

RMaxOf(S) == CHOOSE x \in S : \A y \in S : ~RLess(x, y)

\* coordinate c of every vertex of the mesh, deleted or not
Coordinates(m, c) == {m.vertices[v].position[c] : v \in 1..Len(m.vertices)}

\* mutation of bbox: the box of the first vertex alone
FirstVertexBox(m) ==
    IF Len(m.vertices) = 0 THEN <<PZero, PZero>>
    ELSE <<m.vertices[1].position, m.vertices[1].position>>

\* HalfedgeMesh.bbox: (np.min(positions, axis=0), np.max(positions, axis=0))
bbox(m) ==
    IF Len(m.vertices) = 0 THEN <<PZero, PZero>>
    ELSE <<[c \in 1..3 |-> RMinOf(Coordinates(m, c))],
           [c \in 1..3 |-> RMaxOf(Coordinates(m, c))]>>

\* HalfedgeMesh.center: np.mean(positions, axis=0)
center(m) ==
    IF Len(m.vertices) = 0 THEN PZero
    ELSE PMean([v \in 1..Len(m.vertices) |-> m.vertices[v].position])

\* HalfedgeElement.mark_deleted on vertex v
mark_vertex_deleted(m, v) == [m EXCEPT !.vertices[v].deleted = TRUE]

\* the signs of the 8 corners in "positions" of create_cube
CubeSigns ==
    << <<-1, -1, -1>>, <<-1, -1, 1>>, <<1, -1, 1>>, <<1, -1, -1>>,
       <<-1, 1, -1>>, <<-1, 1, 1>>, <<1, 1, 1>>, <<1, 1, -1>> >>

\* "positions": half = size / 2.0, every coordinate is -half or half
CubePositions(size) ==
    [i \in 1..8 |->
        [c \in 1..3 |-> RMul(Rat(CubeSigns[i][c], 1), RMul(size, Rat(1, 2)))]]

\* "faces" of create_cube, as 0-based indices into vertices
CubeFaceIndices ==
    << <<0, 3, 2, 1>>, <<4, 5, 6, 7>>, <<0, 1, 5, 4>>,
       <<2, 3, 7, 6>>, <<0, 4, 7, 3>>, <<1, 2, 6, 5>> >>

\* face_list: [vertices[i] for i in face_indices]; vertices[i] is vertex i + 1
CubeFaceList ==
    [k \in 1..6 |-> [j \in 1..4 |-> CubeFaceIndices[k][j] + 1]]

\* PrimitiveGenerator.create_cube
create_cube(size) == Rebuilt(MeshOfPositions(CubePositions(size)), CubeFaceList)

\* the sizes create_cube is called with
CubeSizes == {Rat(1, 1), Rat(2, 1), Rat(3, 1)}

\* ------------------------------------------------------------------------
\* Files that are loaded
\* ------------------------------------------------------------------------
\* vertex i lies on the curve (i, i^2, i^3): no two positions are equal, no
\* three are collinear and no four are coplanar
GenericPosition(i) == <<Rat(i, 1), Rat(i * i, 1), Rat(i * i * i, 1)>>

\* the vertices that may be given the position of vertex 1 (0: none is)
Coincident == {0, 2}

VLines(c) ==
    [i \in 1..MaxV |-> IF i = c THEN GenericPosition(1) ELSE GenericPosition(i)]

\* the vertex loops of the "f" lines: the vertices of a subset of at least
\* three vertices in increasing or in decreasing order of their index,
\* written from the least index
Loops ==
    {s \in UNION {[1..n -> 1..MaxV] : n \in 3..MaxV} :
        \/ \A i \in 1..(Len(s) - 1) : s[i] < s[i + 1]
        \/ /\ \A i \in 2..(Len(s) - 1) : s[i] > s[i + 1]
           /\ \A i \in 2..Len(s) : s[1] < s[i]}

\* up to renaming the vertices the first face is <<1, .., n>>
FirstLoops == {[i \in 1..n |-> i] : n \in 3..MaxV}

\* a loop read as a number in base MaxV + 1
RECURSIVE LoopCode(_)
LoopCode(s) == IF s = <<>> THEN 0 ELSE Head(s) + (MaxV + 1) * LoopCode(Tail(s))

RECURSIVE TotalLen(_)
TotalLen(fl) == IF fl = <<>> THEN 0 ELSE Len(Head(fl)) + TotalLen(Tail(fl))

\* the faces after the first are listed in one order only
LaterLoops ==
    {r \in UNION {[1..k -> Loops] : k \in 0..((MaxHalfedges \div 3) - 1)} :
        \A i, j \in DOMAIN r : i < j => LoopCode(r[i]) <= LoopCode(r[j])}

FLines ==
    {<<>>} \cup
    {fl \in {<<c>> \o r : c \in FirstLoops, r \in LaterLoops} :
        TotalLen(fl) <= MaxHalfedges}

\* the greatest vertex index of the "f" lines
TopVertex(fl) ==
    IF fl = <<>> THEN 0
    ELSE CHOOSE n \in 1..MaxV :
             /\ \E k \in 1..Len(fl) : n \in Range(fl[k])
             /\ \A k \in 1..Len(fl) : \A i \in 1..Len(fl[k]) : fl[k][i] <= n

\* a file has MaxV "v" lines, or only those its "f" lines refer to
Files ==
    {[v |-> VLines(c), f |-> fl] : c \in Coincident, fl \in FLines} \cup
    {[v |-> SubSeq(VLines(c), 1, TopVertex(fl)), f |-> fl] :
        c \in Coincident, fl \in FLines}

\* ------------------------------------------------------------------------
\* The editor: one mesh, loaded once, then operated on
\* ------------------------------------------------------------------------
VARIABLES mesh, op, outcome, ret, pre, built, arg, saved

vars == <<mesh, op, outcome, ret, pre, built, arg, saved>>

Init ==
    /\ mesh = EmptyMesh
    /\ op = "init"
    /\ outcome = "returned"
    /\ ret = None
    /\ pre = EmptyMesh
    /\ built = [faces |-> <<>>, base |-> 0]
    /\ arg = None
    /\ saved = [v |-> <<>>, f |-> <<>>]

\* An operator is started when the previous call has returned or raised.
\* What an operator does depends on the mesh only, so the calls that follow
\* a call which left the mesh as it was are the calls already taken from
\* the state before it; they are not taken again.
CanOperate ==
    /\ op # "init"
    /\ outcome # "hang"
    /\ (op = "load_obj" \/ mesh # pre)
    /\ Cardinality(LiveFaces(mesh)) <= MaxOpFaces

\* what a call that leaves r does to the mesh of the editor
Effect(name, r) ==
    /\ mesh' = r.mesh
    /\ outcome' = r.outcome
    /\ ret' = r.ret
    /\ built' = [faces |-> r.built, base |-> r.base]
    /\ op' = name
    /\ pre' = mesh

\* a call without an argument
Call(name, r) == Effect(name, r) /\ arg' = None /\ saved' = saved

\* a new scene or a quick insert: the mesh is a cube
CreateCube ==
    /\ op = "init"
    /\ \E size \in CubeSizes :
          \E r \in {create_cube(size)} :
              /\ Effect("create_cube", [r EXCEPT !.ret = None])
              /\ arg' = size
              /\ saved' = saved

\* the mesh is exported once the call before has returned or raised;
\* an export leaves the mesh as it is
ExportObj ==
    /\ op \notin {"init", "save_obj"}
    /\ outcome # "hang"
    /\ saved' = save_obj(mesh)
    /\ op' = "save_obj"
    /\ outcome' = "returned"
    /\ ret' = TRUE
    /\ pre' = mesh
    /\ arg' = None
    /\ UNCHANGED <<mesh, built>>

LoadObj ==
    /\ op = "init"
    /\ \E file \in Files :
          \E r \in {load_obj(file)} : Call("load_obj", [r EXCEPT !.ret = None])

Triangulate ==
    /\ CanOperate
    /\ \E r \in {triangulate(mesh)} : Call("triangulate", r)

SubdivideLinear ==
    /\ CanOperate
    /\ \E r \in {subdivide_linear(mesh)} : Call("subdivide_linear", r)

SubdivideLoop ==
    /\ CanOperate
    /\ \E r \in {subdivide_loop(mesh)} : Call("subdivide_loop", r)

SubdivideCatmullClark ==
    /\ CanOperate
    /\ \E r \in {subdivide_catmull_clark(mesh)} :
          Call("subdivide_catmull_clark", r)

Next ==
    \/ LoadObj
    \/ CreateCube
    \/ Triangulate
    \/ SubdivideLinear
    \/ SubdivideLoop
    \/ SubdivideCatmullClark
    \/ ExportObj

Spec == Init /\ [][Next]_vars

\* ------------------------------------------------------------------------
\* Queries on meshes put together by hand with add_vertex, add_face and
\* add_halfedge: two vertices that no halfedge leaves, one face, and up to
\* MaxLoose halfedges whose next, vertex and face.halfedge fields are set
\* freely (None included)
\* ------------------------------------------------------------------------
MaxLoose == 2

LooseHalfedges(n) ==
    [1..n -> [next : 0..n, twin : {None}, vertex : 0..2, edge : {None}, face : {1}]]

HandBuiltOf(n) ==
    {[vertices |-> <<NewVertex(GenericPosition(1)), NewVertex(GenericPosition(2))>>,
      edges |-> <<>>,
      faces |-> <<[NewFace EXCEPT !.halfedge = fh]>>,
      halfedges |-> hs,
      boundary_faces |-> <<>>] :
        fh \in 0..n, hs \in LooseHalfedges(n)}

InitQueries ==
    /\ mesh \in UNION {HandBuiltOf(n) : n \in 0..MaxLoose}
    /\ op = "init"
    /\ outcome = "returned"
    /\ ret = None
    /\ pre = EmptyMesh
    /\ built = [faces |-> <<>>, base |-> 0]
    /\ arg = None
    /\ saved = [v |-> <<>>, f |-> <<>>]

\* a query of an element: it leaves the mesh as it is
Query(name, element, value, out) ==
    /\ op = "init"
    /\ op' = name
    /\ arg' = element
    /\ ret' = value
    /\ outcome' = out
    /\ pre' = mesh
    /\ UNCHANGED <<mesh, built, saved>>

QueryDegree ==
    \E v \in 1..Len(mesh.vertices) :
        Query("degree", v, Vertex_degree(mesh, v), "returned")

QueryNeighbors ==
    \E v \in 1..Len(mesh.vertices) :
        Query("neighbors", v, Vertex_neighbors(mesh, v), "returned")

\* area() returns when the walk of vertices() does
QueryArea ==
    \E f \in 1..Len(mesh.faces) :
        IF FaceWalkReturns(mesh, f)
        THEN Query("area", f, Face_area(mesh, f), "returned")
        ELSE Query("area", f, None, "hang")

NextQueries ==
    \/ QueryDegree
    \/ QueryNeighbors
    \/ QueryArea

SpecQueries == InitQueries /\ [][NextQueries]_vars

\* ------------------------------------------------------------------------
\* Vertices added with add_vertex, marked deleted one by one, and the box
\* and the centre of what is left
\* ------------------------------------------------------------------------
MaxPoints == 3

RECURSIVE AddVertices(_, _)
AddVertices(m, ps) ==
    IF ps = <<>> THEN m ELSE AddVertices(add_vertex(m, Head(ps)), Tail(ps))

PointLists == UNION {[1..n -> {GenericPosition(i) : i \in 1..3}] : n \in 0..MaxPoints}

InitPoints ==
    /\ mesh \in {AddVertices(EmptyMesh, ps) : ps \in PointLists}
    /\ op = "init"
    /\ outcome = "returned"
    /\ ret = None
    /\ pre = EmptyMesh
    /\ built = [faces |-> <<>>, base |-> 0]
    /\ arg = None
    /\ saved = [v |-> <<>>, f |-> <<>>]

MarkDeleted ==
    /\ op \in {"init", "mark_deleted"}
    /\ \E v \in 1..Len(mesh.vertices) :
          /\ ~mesh.vertices[v].deleted
          /\ mesh' = mark_vertex_deleted(mesh, v)
          /\ arg' = v
    /\ op' = "mark_deleted"
    /\ ret' = None
    /\ pre' = mesh
    /\ UNCHANGED <<outcome, built, saved>>

\* a query of the whole mesh: it leaves the mesh as it is
QueryMesh(name, value) ==
    /\ op \in {"init", "mark_deleted"}
    /\ op' = name
    /\ ret' = value
    /\ pre' = mesh
    /\ arg' = None
    /\ UNCHANGED <<mesh, outcome, built, saved>>

QueryBbox == QueryMesh("bbox", bbox(mesh))

QueryCenter == QueryMesh("center", center(mesh))

NextPoints ==
    \/ MarkDeleted
    \/ QueryBbox
    \/ QueryCenter

SpecPoints == InitPoints /\ [][NextPoints]_vars

\* ------------------------------------------------------------------------
\* An operator step by step: the five collections are cleared, the new
\* vertices are added, the builder makes one face after the other and then
\* the boundary halfedges.  A reader that runs between two steps sees the
\* mesh of that moment.
\* ------------------------------------------------------------------------
MaxStepFaces == 2

\* mutation of clear: the collections are left as they are
keep(m) == m

\* vertices.clear(), edges.clear(), faces.clear(), halfedges.clear(),
\* boundary_faces.clear()
clear(m) == EmptyMesh

\* the vertices added to the cleared mesh: those of the rebuilt mesh r
NewVerticesOf(r) ==
    MeshOfPositions([v \in 1..Len(r.vertices) |-> r.vertices[v].position])

\* the builder after the first k faces of its first pass
PartlyBuilt(r, faces, k) ==
    BuildFaces([m |-> NewVerticesOf(r), eh |-> <<>>], SubSeq(faces, 1, k))

\* the mesh the running operator ends with
Final ==
    IF op = "subdivide_linear" THEN subdivide_linear(pre).mesh
    ELSE subdivide_loop(pre).mesh

InitSteps ==
    /\ mesh \in {load_obj([v |-> VLines(0), f |-> fl]).mesh :
                     fl \in {x \in FLines : Len(x) <= MaxStepFaces}}
    /\ op = "load_obj"
    /\ outcome = "returned"
    /\ ret = None
    /\ pre = EmptyMesh
    /\ built = [faces |-> <<>>, base |-> 0]
    /\ arg = [pc |-> "idle", k |-> 0]
    /\ saved = [v |-> <<>>, f |-> <<>>]

\* the operator has collected its data and clears the mesh; r is what the
\* whole call makes of the mesh
ClearStep(name, r) ==
    /\ r.outcome = "returned"
    /\ r.ret = TRUE
    /\ mesh' = clear(mesh)
    /\ pre' = mesh
    /\ op' = name
    /\ outcome' = "running"
    /\ built' = [faces |-> r.built, base |-> 0]
    /\ arg' = [pc |-> "cleared", k |-> 0]
    /\ UNCHANGED <<ret, saved>>

ClearLinear ==
    /\ op = "load_obj"
    /\ \E r \in {subdivide_linear(mesh)} : ClearStep("subdivide_linear", r)

ClearLoop ==
    /\ op = "load_obj"
    /\ \E r \in {subdivide_loop(mesh)} : ClearStep("subdivide_loop", r)

AddNewVertices ==
    /\ outcome = "running"
    /\ arg.pc = "cleared"
    /\ mesh' = NewVerticesOf(Final)
    /\ arg' = [pc |-> "faces", k |-> 0]
    /\ UNCHANGED <<op, outcome, ret, pre, built, saved>>

BuildNextFace ==
    /\ outcome = "running"
    /\ arg.pc = "faces"
    /\ arg.k < Len(built.faces)
    /\ mesh' = PartlyBuilt(Final, built.faces, arg.k + 1).m
    /\ arg' = [pc |-> "faces", k |-> arg.k + 1]
    /\ UNCHANGED <<op, outcome, ret, pre, built, saved>>

FinishBoundary ==
    /\ outcome = "running"
    /\ arg.pc = "faces"
    /\ arg.k = Len(built.faces)
    /\ mesh' = BoundaryPass(PartlyBuilt(Final, built.faces, arg.k))
    /\ outcome' = "returned"
    /\ ret' = TRUE
    /\ arg' = [pc |-> "done", k |-> arg.k]
    /\ UNCHANGED <<op, pre, built, saved>>

NextSteps ==
    \/ ClearLinear
    \/ ClearLoop
    \/ AddNewVertices
    \/ BuildNextFace
    \/ FinishBoundary

SpecSteps == InitSteps /\ [][NextSteps]_vars

\* ------------------------------------------------------------------------
\* Properties
\* ------------------------------------------------------------------------
\* the sum of w[x] over the finite set S
RECURSIVE SumOf(_, _)
SumOf(S, w) ==
    IF S = {} THEN 0
    ELSE LET x == CHOOSE y \in S : TRUE
         IN  w[x] + SumOf(S \ {x}, w)

\* the halfedge reached from h by following next k times
RECURSIVE NextTimes(_, _, _)
NextTimes(m, h, k) ==
    IF k = 0 THEN h ELSE NextTimes(m, m.halfedges[h].next, k - 1)

\* the halfedges of the faces that are not boundary faces
InteriorHalfedges(m) ==
    {h \in 1..Len(m.halfedges) :
        m.halfedges[h].face # None /\ ~m.faces[m.halfedges[h].face].is_boundary}

\* the target of the halfedge that precedes h in its face loop
LoopSource(m, h) ==
    m.halfedges[CHOOSE p \in 1..Len(m.halfedges) : m.halfedges[p].next = h].vertex

\* number of sides of face f
Sides(m, f) == Len(Face_vertices(m, f))

\* the faces an operator works on: not deleted, not boundary, 3 or more sides
Eligible(m) == {f \in LiveFaces(m) : Sides(m, f) >= 3}

\* the mesh was built from the faces of a file
Loaded == op = "load_obj"

\* C1: in a mesh built from a file, every halfedge h of a non-boundary face
\* has a twin with h.twin.twin = h and h.twin.edge = h.edge.
C1_TwinSymmetry ==
    Loaded =>
        \A h \in InteriorHalfedges(mesh) :
            LET t == mesh.halfedges[h].twin
            IN  /\ t # None
                /\ mesh.halfedges[t].twin = h
                /\ mesh.halfedges[t].edge = mesh.halfedges[h].edge

\* C2: in every mesh the builder has worked on, following next from
\* face.halfedge exactly len(face.vertices()) times leads back to
\* face.halfedge, and the face built from an n-vertex loop has n vertices.
C2_FaceLoopClosure ==
    /\ \A f \in 1..Len(mesh.faces) :
          NextTimes(mesh, mesh.faces[f].halfedge, Sides(mesh, f))
              = mesh.faces[f].halfedge
    /\ \A k \in 1..Len(built.faces) :
          /\ mesh.faces[built.base + k].halfedge # None
          /\ Sides(mesh, built.base + k) = Len(built.faces[k])

\* a file with a triangle and a quad has been loaded
C2_Witness ==
    /\ Loaded
    /\ \E j, k \in 1..Len(built.faces) :
          /\ Len(built.faces[j]) = 3 /\ Sides(mesh, j) = 3
          /\ Len(built.faces[k]) = 4 /\ Sides(mesh, k) = 4

\* C3: in a mesh built from a file, the source of every halfedge h of a
\* non-boundary face (the target of the halfedge before h in its loop) is
\* h.twin.vertex, and vertex.halfedge is the first halfedge created with
\* that vertex as its source.
C3_SourceIsTwinTarget ==
    Loaded =>
        /\ \A h \in InteriorHalfedges(mesh) :
              /\ mesh.halfedges[h].twin # None
              /\ LoopSource(mesh, h) = mesh.halfedges[mesh.halfedges[h].twin].vertex
        /\ \A v \in 1..Len(mesh.vertices) :
              LET out == {h \in InteriorHalfedges(mesh) : LoopSource(mesh, h) = v}
              IN  IF out = {} THEN mesh.vertices[v].halfedge = None
                  ELSE /\ mesh.vertices[v].halfedge \in out
                       /\ \A h \in out : mesh.vertices[v].halfedge <= h

\* C4: in a mesh built from a file, the walk of degree(), neighbors() and
\* faces() comes back to its start from every vertex.
C4_VertexWalksTerminate ==
    Loaded => \A v \in 1..Len(mesh.vertices) : VertexWalkReturns(mesh, v)

\* the faces triangulate splits
SplitFaces(m) == {f \in LiveFaces(m) : Sides(m, f) > 3}

\* the number of triangles triangulate builds for the faces before f
FanOffset(m, f) ==
    SumOf({g \in SplitFaces(m) : g < f},
          [g \in 1..Len(m.faces) |-> Sides(m, g) - 2])

\* the faces that are not boundary faces, deleted or not
NonBoundaryFaces(m) == {f \in 1..Len(m.faces) : ~m.faces[f].is_boundary}

\* C5: triangulate() keeps every live triangle as it is, marks every live
\* face of n > 3 sides deleted and builds for it the triangles
\* [v0, vi, vi+1], i = 1..n-2, of its vertex list, returns the number of
\* faces it split, and leaves sum of max(1, n-2) live faces, all triangles.
C5_TriangulateFan ==
    op = "triangulate" =>
        LET split == SplitFaces(pre)
            kept == LiveFaces(pre) \ split
            new == {built.base + k : k \in 1..Len(built.faces)}
        IN  /\ ret = Cardinality(split)
            /\ \A f \in kept :
                  /\ mesh.faces[f] = pre.faces[f]
                  /\ Face_vertices(mesh, f) = Face_vertices(pre, f)
            /\ \A f \in split :
                  LET vs == Face_vertices(pre, f)
                  IN  /\ mesh.faces[f].deleted
                      /\ \A i \in 1..(Len(vs) - 2) :
                            built.faces[FanOffset(pre, f) + i]
                                = <<vs[1], vs[i + 1], vs[i + 2]>>
            /\ Len(built.faces)
                  = SumOf(split, [f \in 1..Len(pre.faces) |-> Sides(pre, f) - 2])
            /\ \A k \in 1..Len(built.faces) :
                  Face_vertices(mesh, built.base + k)
                      = <<built.faces[k][2], built.faces[k][3], built.faces[k][1]>>
            /\ LiveFaces(mesh) = kept \cup new
            /\ \A f \in LiveFaces(mesh) : Sides(mesh, f) = 3
            /\ Cardinality(LiveFaces(mesh))
                  = SumOf(LiveFaces(pre),
                          [f \in 1..Len(pre.faces) |-> Max(1, Sides(pre, f) - 2)])

\* triangulate() has run on a mesh with a triangle and a larger face
C5_Witness ==
    /\ op = "triangulate"
    /\ ret >= 1
    /\ SplitFaces(pre) # {}
    /\ LiveFaces(pre) \ SplitFaces(pre) # {}

\* C6: a triangulate() that follows a triangulate() returns 0 and leaves
\* the mesh (collections, deleted flags, vertex halfedges) as it was.
C6_TriangulateTwice ==
    [][(op = "triangulate" /\ op' = "triangulate") => (ret' = 0 /\ mesh' = mesh)]_vars

\* the second of two triangulate() calls, the first of which split a face
C6_Witness ==
    /\ op = "triangulate"
    /\ ret = 0
    /\ \E f \in 1..Len(pre.faces) : pre.faces[f].deleted

\* an operator has returned after it restructured the mesh
Restructured ==
    /\ outcome = "returned"
    /\ \/ op = "triangulate" /\ ret # 0
       \/ op = "subdivide_linear" /\ ret = TRUE
       \/ op = "subdivide_loop" /\ ret = TRUE

\* C7: after an operator that restructured the mesh, the builder has
\* started from empty collections (nothing of the mesh before the call is
\* left in them) and no halfedge belongs to a deleted face.
C7_ClearAndRebuild ==
    Restructured =>
        /\ built.base = 0
        /\ Cardinality(NonBoundaryFaces(mesh)) = Len(built.faces)
        /\ \A h \in 1..Len(mesh.halfedges) :
              mesh.halfedges[h].face # None
                  => ~mesh.faces[mesh.halfedges[h].face].deleted

C9_LinearNoFaces ==
    (op = "subdivide_linear" /\ Eligible(pre) = {}) =>
        (ret = FALSE /\ mesh = pre)

\* subdivide_linear() has run on a mesh that has vertices and no face
C9_Witness ==
    /\ op = "subdivide_linear"
    /\ Eligible(pre) = {}
    /\ Len(pre.vertices) > 0
    /\ ret = FALSE

\* C10: subdivide_loop() on a mesh whose F >= 1 live faces are all
\* triangles returns True and leaves 4F non-boundary faces, all triangles,
\* built four by four as [c0,e0,e2], [c1,e1,e0], [c2,e2,e1], [e0,e1,e2].
C10_LoopFourTriangles ==
    (/\ op = "subdivide_loop"
     /\ LiveFaces(pre) # {}
     /\ \A f \in LiveFaces(pre) : Sides(pre, f) = 3) =>
        /\ outcome = "returned"
        /\ ret = TRUE
        /\ Cardinality(NonBoundaryFaces(mesh)) = 4 * Cardinality(LiveFaces(pre))
        /\ \A f \in NonBoundaryFaces(mesh) :
              ~mesh.faces[f].deleted /\ Sides(mesh, f) = 3
        /\ Len(built.faces) = 4 * Cardinality(LiveFaces(pre))
        /\ \A j \in 0..(Cardinality(LiveFaces(pre)) - 1) :
              LET t == [i \in 1..4 |-> built.faces[4 * j + i]]
              IN  /\ t[1][2] = t[4][1] /\ t[1][3] = t[4][3]
                  /\ t[2][2] = t[4][2] /\ t[2][3] = t[4][1]
                  /\ t[3][2] = t[4][3] /\ t[3][3] = t[4][2]

\* C11: subdivide_loop() on a mesh with a live face whose vertex loop does
\* not have 3 vertices returns False and leaves vertices, edges, faces,
\* halfedges and boundary_faces (positions and pointers) as they were.
C11_LoopRejects ==
    (op = "subdivide_loop" /\ \E f \in LiveFaces(pre) : Sides(pre, f) # 3) =>
        /\ outcome = "returned"
        /\ ret = FALSE
        /\ mesh = pre

\* subdivide_loop() has run on a mesh with a triangle and a quad
C11_Witness ==
    /\ op = "subdivide_loop"
    /\ outcome = "returned"
    /\ ret = FALSE
    /\ \E f, g \in LiveFaces(pre) : Sides(pre, f) = 3 /\ Sides(pre, g) = 4

\* C12: subdivide_catmull_clark() on a mesh with eligible faces returns True
\* and leaves as many non-boundary faces as the eligible faces had corners,
\* each of them a quad.
C12_CatmullClarkQuads ==
    (op = "subdivide_catmull_clark" /\ Eligible(pre) # {}) =>
        /\ outcome = "returned"
        /\ ret = TRUE
        /\ Cardinality(NonBoundaryFaces(mesh))
              = SumOf(Eligible(pre), [f \in 1..Len(pre.faces) |-> Sides(pre, f)])
        /\ \A f \in NonBoundaryFaces(mesh) :
              ~mesh.faces[f].deleted /\ Sides(mesh, f) = 4

\* C13: an operator called on a mesh with nothing to do (no face to split,
\* no eligible face) or with an unmet precondition (a live face that is not
\* a triangle, for Loop) returns 0 or False; it does not raise.
C13_FailureByReturnValue ==
    /\ (op = "triangulate" /\ SplitFaces(pre) = {}) =>
          (outcome = "returned" /\ ret = 0)
    /\ (op = "subdivide_linear" /\ Eligible(pre) = {}) =>
          (outcome = "returned" /\ ret = FALSE)
    /\ (/\ op = "subdivide_loop"
        /\ \/ LiveFaces(pre) = {}
           \/ \E f \in LiveFaces(pre) : Sides(pre, f) # 3) =>
          (outcome = "returned" /\ ret = FALSE)
    /\ (op = "subdivide_catmull_clark" /\ Eligible(pre) = {}) =>
          (outcome = "returned" /\ ret = FALSE)

\* C14: create_cube(2.0) gives 8 vertices and 6 non-boundary faces, all
\* quads, and bbox() of the mesh is ((-1,-1,-1), (1,1,1)).
C14_Cube ==
    (op = "create_cube" /\ arg = Rat(2, 1)) =>
        /\ Len(mesh.vertices) = 8
        /\ Cardinality(NonBoundaryFaces(mesh)) = 6
        /\ \A f \in NonBoundaryFaces(mesh) :
              ~mesh.faces[f].deleted /\ Sides(mesh, f) = 4
        /\ bbox(mesh) = << <<Rat(-1, 1), Rat(-1, 1), Rat(-1, 1)>>,
                           <<Rat(1, 1), Rat(1, 1), Rat(1, 1)>> >>

\* create_cube(2.0) has been called
C14_Witness ==
    /\ op = "create_cube"
    /\ arg = Rat(2, 1)
    /\ Len(mesh.halfedges) = 24

\* ------------------------------------------------------------------------
\* The round trip of an export (C15)
\* ------------------------------------------------------------------------
\* the mesh load_obj builds from the text of the last export
Reimported == load_obj(ReadText(saved)).mesh

\* b is a with its start moved: the same cyclic order
IsRotation(a, b) ==
    /\ Len(a) = Len(b)
    /\ \/ Len(a) = 0
       \/ \E s \in 0..(Len(a) - 1) :
             \A i \in 1..Len(a) : b[i] = a[((i - 1 + s) % Len(a)) + 1]

\* the live faces of m, in the order of m.faces
LiveFaceList(m) ==
    SelectSeq([f \in 1..Len(m.faces) |-> f], LAMBDA f : f \in LiveFaces(m))

FacePositions(m, f) == PositionsOf(m, Face_vertices(m, f))

\* q is a position read back from the text of p: each coordinate is the
\* multiple of 10^-6 just below or just above the coordinate of p
ReadBackOf(p, q) ==
    \A c \in 1..3 :
        \E t \in {Floor6(p[c]).value, Floor6(p[c]).value + 1} :
            q[c] = Rat(t, Scale)

\* b is a with its start moved and its positions read back from the text
IsRoundedRotation(a, b) ==
    /\ Len(a) = Len(b)
    /\ \/ Len(a) = 0
       \/ \E s \in 0..(Len(a) - 1) :
             \A i \in 1..Len(a) : ReadBackOf(a[((i - 1 + s) % Len(a)) + 1], b[i])

\* what the export of the mesh and the import m2 of its text keep, apart
\* from positions
RoundTripShape(m2) ==
    /\ Len(m2.vertices) =
           Cardinality({v \in 1..Len(mesh.vertices) : ~mesh.vertices[v].deleted})
    /\ Len(LiveFaceList(m2)) = Len(LiveFaceList(mesh))
    /\ \A k \in 1..Len(saved.f) :
           \A i \in 1..Len(saved.f[k]) : saved.f[k][i] \in 1..Len(saved.v)

\* C15 as stated: after save_obj followed by load_obj of the written file,
\* the mesh has as many non-deleted vertices and as many live faces, every
\* written index is in 1..(number of v lines), and the k-th re-imported face
\* has the vertex positions of the k-th live face, in the same cyclic order.
C15_RoundTripExact ==
    op = "save_obj" =>
        \E m2 \in {Reimported} :
            /\ RoundTripShape(m2)
            /\ \A k \in 1..Len(LiveFaceList(mesh)) :
                   IsRotation(FacePositions(mesh, LiveFaceList(mesh)[k]),
                              FacePositions(m2, LiveFaceList(m2)[k]))

\* C15, amended: the counts and the indices are as stated; the k-th
\* re-imported face has as many vertices as the k-th live face, in the same
\* cyclic order, and each of its coordinates is the original one rounded to
\* 6 decimals (less than 10^-6 away from it).
C15_RoundTripRounded ==
    op = "save_obj" =>
        \E m2 \in {Reimported} :
            /\ RoundTripShape(m2)
            /\ \A k \in 1..Len(LiveFaceList(mesh)) :
                   IsRoundedRotation(FacePositions(mesh, LiveFaceList(mesh)[k]),
                                     FacePositions(m2, LiveFaceList(m2)[k]))

\* an export of a mesh with a deleted face, a boundary face, two live faces
\* and a coordinate that 6 decimals cannot hold
C15_Witness ==
    /\ op = "save_obj"
    /\ \E f \in 1..Len(mesh.faces) : mesh.faces[f].deleted
    /\ \E f \in 1..Len(mesh.faces) : mesh.faces[f].is_boundary
    /\ Len(saved.f) >= 2
    /\ \E v \in 1..Len(mesh.vertices) : \E c \in 1..3 :
           Floor6(mesh.vertices[v].position[c]).rem # 0

\* ------------------------------------------------------------------------
\* Degenerate queries (C16)
\* ------------------------------------------------------------------------
IsZeroArea(a) == \A i \in DOMAIN a : a[i] = Rat(0, 1)

\* C16: degree() is 0 and neighbors() is empty for a vertex with no
\* halfedge, and area() returns 0.0 for a face whose vertices() has at most
\* two entries, a face with no halfedge included.
C16_DegenerateQueries ==
    /\ (op = "degree" /\ mesh.vertices[arg].halfedge = None) =>
           outcome = "returned" /\ ret = 0
    /\ (op = "neighbors" /\ mesh.vertices[arg].halfedge = None) =>
           outcome = "returned" /\ ret = <<>>
    /\ (op = "area" /\ (\/ mesh.faces[arg].halfedge = None
                        \/ Len(Face_vertices(mesh, arg)) <= 2)) =>
           outcome = "returned" /\ IsZeroArea(ret)

\* area() has been asked of a face whose loop has two halfedges
C16_Witness ==
    /\ op = "area"
    /\ outcome = "returned"
    /\ mesh.faces[arg].halfedge # None
    /\ Len(Face_vertices(mesh, arg)) = 2
    /\ mesh.halfedges[mesh.halfedges[mesh.faces[arg].halfedge].next].next
           = mesh.faces[arg].halfedge

\* ------------------------------------------------------------------------
\* The vertex queries on a mesh of the builder (C17, C18, C19)
\* ------------------------------------------------------------------------
\* the mesh is what the builder has made of a face list, and nothing else
FromBuilder == op \in {"load_obj", "create_cube"}

\* the edges of the face list: the pairs of vertices that follow each other
\* in a face
BuiltEdges ==
    UNION {{{built.faces[k][i], built.faces[k][(i % Len(built.faces[k])) + 1]} :
               i \in 1..Len(built.faces[k])} : k \in 1..Len(built.faces)}

IncidentEdges(v) == {e \in BuiltEdges : v \in e}

\* the non-boundary faces with v as a corner
CornerFaces(v) ==
    {f \in NonBoundaryFaces(mesh) : v \in Range(Face_vertices(mesh, f))}

\* C17: for every vertex v of a mesh of the builder, closed or open,
\* degree() returns the number of edges incident to v.
C17_DegreeIsIncidentEdges ==
    FromBuilder =>
        \A v \in 1..Len(mesh.vertices) :
            /\ VertexWalkReturns(mesh, v)
            /\ Vertex_degree(mesh, v) = Cardinality(IncidentEdges(v))

\* C18: for every vertex v of a mesh of the builder, closed or open,
\* neighbors() returns exactly the vertices joined to v by an edge: never v
\* itself, no vertex twice, no vertex that shares no edge with v.
C18_NeighborsAreAdjacent ==
    FromBuilder =>
        \A v \in 1..Len(mesh.vertices) :
            /\ VertexWalkReturns(mesh, v)
            /\ Range(Vertex_neighbors(mesh, v)) = UNION IncidentEdges(v) \ {v}
            /\ Len(Vertex_neighbors(mesh, v))
                   = Cardinality(Range(Vertex_neighbors(mesh, v)))

\* C19: for every vertex v of a mesh of the builder, closed or open, faces()
\* returns exactly the non-boundary faces that have v as a corner, each
\* exactly once.
C19_FacesAreCornerFaces ==
    FromBuilder =>
        \A v \in 1..Len(mesh.vertices) :
            /\ VertexWalkReturns(mesh, v)
            /\ Range(Vertex_faces(mesh, v)) = CornerFaces(v)
            /\ Len(Vertex_faces(mesh, v)) = Cardinality(CornerFaces(v))

\* ------------------------------------------------------------------------
\* The faces of a linear subdivision (C20)
\* ------------------------------------------------------------------------
\* the faces of m with n sides among the faces of S
WithSides(m, S, n) == {f \in S : Sides(m, f) = n}

\* C20: subdivide_linear() splits every triangle into 4 new triangles and
\* every quad into 4 new quads: on a mesh of triangles and quads it leaves 4
\* faces for each face, 4 triangles for each triangle and 4 quads for each
\* quad.
C20_LinearFourFaces ==
    (/\ op = "subdivide_linear"
     /\ outcome = "returned"
     /\ Eligible(pre) # {}
     /\ \A f \in Eligible(pre) : Sides(pre, f) \in {3, 4}) =>
        /\ ret = TRUE
        /\ Cardinality(NonBoundaryFaces(mesh)) = 4 * Cardinality(Eligible(pre))
        /\ Cardinality(WithSides(mesh, NonBoundaryFaces(mesh), 3))
              = 4 * Cardinality(WithSides(pre, Eligible(pre), 3))
        /\ Cardinality(WithSides(mesh, NonBoundaryFaces(mesh), 4))
              = 4 * Cardinality(WithSides(pre, Eligible(pre), 4))

\* ------------------------------------------------------------------------
\* The boundary halfedges of the builder (C21)
\* ------------------------------------------------------------------------
\* the mesh holds what one run of the builder has made, and nothing else
OneBuild == op # "init" /\ \A f \in 1..Len(mesh.faces) : ~mesh.faces[f].deleted

\* the edge key of a halfedge of an input face: its two end vertices
EdgeKeyOf(m, h) == {LoopSource(m, h), m.halfedges[h].vertex}

\* the halfedges of the input faces that touch the edge key of h
Touching(m, h) == {g \in InteriorHalfedges(m) : EdgeKeyOf(m, g) = EdgeKeyOf(m, h)}

\* the edge key of every halfedge of an input face of m
KeysOf(m) ==
    [h \in 1..Len(m.halfedges) |->
        IF h \in InteriorHalfedges(m) THEN EdgeKeyOf(m, h) ELSE {}]

\* the halfedges the second pass of the builder has added
BoundaryHalfedges(m) == (1..Len(m.halfedges)) \ InteriorHalfedges(m)

\* b is the boundary halfedge the builder owes to the lone halfedge h
IsBoundaryOf(m, b, h) ==
    /\ m.halfedges[b].twin = h
    /\ m.halfedges[h].twin = b
    /\ m.halfedges[b].edge = m.halfedges[h].edge
    /\ m.halfedges[b].vertex = LoopSource(m, h)
    /\ m.halfedges[b].next = b
    /\ m.halfedges[b].face # None
    /\ m.faces[m.halfedges[b].face].is_boundary
    /\ m.halfedges[b].face \in Range(m.boundary_faces)
    /\ \A g \in 1..Len(m.halfedges) :
           g # b => m.halfedges[g].face # m.halfedges[b].face

C22_EdgeVertices ==
    FromBuilder =>
        \A e \in 1..Len(mesh.edges) :
            /\ mesh.edges[e].halfedge # None
            /\ Edge_vertices(mesh, e) # <<None, None>>
            /\ Edge_vertices(mesh, e)[1] # Edge_vertices(mesh, e)[2]
            /\ {Edge_vertices(mesh, e)[1], Edge_vertices(mesh, e)[2]}
                   = EdgeKeyOf(mesh, mesh.edges[e].halfedge)

\* ------------------------------------------------------------------------
\* The box and the centre of a mesh with deleted vertices (C23)
\* ------------------------------------------------------------------------
\* the positions of the vertices that are not deleted
LivePositions(m) ==
    [k \in 1..Len(WrittenVertices(m)) |-> m.vertices[WrittenVertices(m)[k]].position]

\* C23: bbox() and center() are taken over the vertices that are not
\* deleted: the min/max and the mean of their positions, and the zero box
\* for a mesh with no vertices.
C23_BoxOfLiveVertices ==
    /\ (op = "bbox" /\ Len(mesh.vertices) = 0) => ret = <<PZero, PZero>>
    /\ (op = "bbox" /\ LivePositions(mesh) # <<>>) =>
           ret = <<[c \in 1..3 |-> RMinOf({p[c] : p \in Range(LivePositions(mesh))})],
                   [c \in 1..3 |-> RMaxOf({p[c] : p \in Range(LivePositions(mesh))})]>>
    /\ (op = "center" /\ LivePositions(mesh) # <<>>) =>
           ret = PMean(LivePositions(mesh))

\* ------------------------------------------------------------------------
\* Linear subdivision of a closed mesh (C24)
\* ------------------------------------------------------------------------
\* m is a closed, consistently oriented manifold mesh: no face is deleted or
\* a boundary face, every edge is used by two halfedges that run in opposite
\* directions, and every vertex is a corner of a face
ClosedManifold(m) ==
    /\ Len(m.faces) > 0
    /\ \A f \in 1..Len(m.faces) : ~m.faces[f].deleted /\ ~m.faces[f].is_boundary
    /\ \A h \in 1..Len(m.halfedges) :
          /\ Cardinality(Touching(m, h)) = 2
          /\ \A g \in Touching(m, h) :
                g # h => m.halfedges[g].vertex # m.halfedges[h].vertex
    /\ \A v \in 1..Len(m.vertices) : m.vertices[v].halfedge # None

DistinctPositions(m) ==
    \A u, v \in 1..Len(m.vertices) :
        u # v => m.vertices[u].position # m.vertices[v].position

NoBoundaryFaces(m) ==
    /\ m.boundary_faces = <<>>
    /\ \A f \in 1..Len(m.faces) : ~m.faces[f].is_boundary

\* the positions subdivide_linear asks a vertex for: the corners, the
\* midpoints of the edges and the centres of the faces
CornerPoints(m) == {m.vertices[v].position : v \in 1..Len(m.vertices)}

MidPoints(m) ==
    {Midpoint(m.vertices[LoopSource(m, h)].position,
              m.vertices[m.halfedges[h].vertex].position) :
        h \in InteriorHalfedges(m)}

CentrePoints(m) == {PMean(FacePositions(m, f)) : f \in LiveFaces(m)}

\* no two corners, edges or faces ask for a vertex at the same position
DistinctNewPoints(m) ==
    Cardinality(CornerPoints(m) \cup MidPoints(m) \cup CentrePoints(m))
        = Len(m.vertices) + Len(m.edges) + Len(m.faces)

\* C24 as stated: subdivide_linear() on a closed, consistently oriented
\* manifold mesh with V vertices, E edges and F faces at pairwise distinct
\* vertex positions leaves V + E + F vertices and no boundary face.
C24_LinearClosed ==
    (op = "subdivide_linear" /\ ClosedManifold(pre) /\ DistinctPositions(pre)) =>
        /\ outcome = "returned"
        /\ ret = TRUE
        /\ Len(mesh.vertices) = Len(pre.vertices) + Len(pre.edges) + Len(pre.faces)
        /\ NoBoundaryFaces(mesh)

\* C24, amended: the midpoint of an edge is one vertex for the two faces of
\* the edge and the result has no boundary face; it has V + E + F vertices
\* when, besides the vertices, the edge midpoints and the face centres are
\* at pairwise distinct positions, and fewer otherwise.
C24_LinearClosedDistinct ==
    (op = "subdivide_linear" /\ ClosedManifold(pre) /\ DistinctPositions(pre)) =>
        /\ outcome = "returned"
        /\ ret = TRUE
        /\ NoBoundaryFaces(mesh)
        /\ Len(mesh.vertices)
              = Cardinality(CornerPoints(pre) \cup MidPoints(pre) \cup CentrePoints(pre))
        /\ Len(mesh.vertices) <= Len(pre.vertices) + Len(pre.edges) + Len(pre.faces)
        /\ DistinctNewPoints(pre) =>
              Len(mesh.vertices) = Len(pre.vertices) + Len(pre.edges) + Len(pre.faces)

\* subdivide_linear() has run on a closed mesh of a quad and two triangles
\* whose corners, midpoints and centres are all distinct
C24_Witness ==
    /\ op = "subdivide_linear"
    /\ ClosedManifold(pre)
    /\ DistinctPositions(pre)
    /\ DistinctNewPoints(pre)
    /\ Len(pre.faces) = 3
    /\ Len(pre.edges) = 5

\* ------------------------------------------------------------------------
\* The edge points of a Loop subdivision (C25)
\* ------------------------------------------------------------------------
\* the live faces of m that have the vertices a and b next to each other
Bordering(m, a, b) ==
    {g \in LiveFaces(m) :
        \E i \in 1..Sides(m, g) :
            {Face_vertices(m, g)[i], Face_vertices(m, g)[(i % Sides(m, g)) + 1]} = {a, b}}

\* the sum of the positions of the vertices of the triangles of S that are
\* neither a nor b
RECURSIVE OppositeSum(_, _, _, _)
OppositeSum(m, S, a, b) ==
    IF S = {} THEN PZero
    ELSE LET g == CHOOSE x \in S : TRUE
         IN  PAdd(PSum(PositionsOf(m, SelectSeq(Face_vertices(m, g),
                                                LAMBDA v : v \notin {a, b}))),
                  OppositeSum(m, S \ {g}, a, b))

\* the edge point the Loop rules give the edge a-b of m
LoopEdgePoint(m, a, b) ==
    IF Cardinality(Bordering(m, a, b)) = 2
    THEN PAdd(PScale(Rat(3, 8), PAdd(m.vertices[a].position, m.vertices[b].position)),
              PScale(Rat(1, 8), OppositeSum(m, Bordering(m, a, b), a, b)))
    ELSE Midpoint(m.vertices[a].position, m.vertices[b].position)

\* subdivide_loop() has returned True
LoopDone == op = "subdivide_loop" /\ outcome = "returned" /\ ret = TRUE

\* C25: after subdivide_loop(), the new point of the edge v1-v2 of a
\* triangle is 3/8 (v1 + v2) + 1/8 (o1 + o2) when two triangles have the
\* vertices v1 and v2 next to each other and (v1 + v2) / 2 when one has.
\* The fourth face built for the j-th triangle is made of its three edge
\* points.
C25_LoopEdgePoints ==
    LoopDone =>
        \A j \in 1..Len(LiveFaceList(pre)) :
            \A i \in 1..3 :
                \E vs \in {Face_vertices(pre, LiveFaceList(pre)[j])} :
                    Cardinality(Bordering(pre, vs[i], vs[(i % 3) + 1])) \in {1, 2} =>
                        mesh.vertices[built.faces[4 * j][i]].position
                            = LoopEdgePoint(pre, vs[i], vs[(i % 3) + 1])

\* ------------------------------------------------------------------------
\* The mesh while an operator runs (C26)
\* ------------------------------------------------------------------------
AllEmpty(m) ==
    /\ m.vertices = <<>> /\ m.edges = <<>> /\ m.faces = <<>>
    /\ m.halfedges = <<>> /\ m.boundary_faces = <<>>

Mixed(m) ==
    /\ \E f \in LiveFaces(m) : Len(Face_vertices(m, f)) = 3
    /\ \E f \in LiveFaces(m) : Len(Face_vertices(m, f)) > 3

TriangulateDone == op = "triangulate" /\ outcome = "returned" /\ ret > 0

\* every halfedge of a live non-boundary face has a twin that belongs to a
\* live non-boundary face
LiveTwins(m) ==
    \A h \in 1..Len(m.halfedges) :
        m.halfedges[h].face \in LiveFaces(m) =>
            /\ m.halfedges[h].twin # None
            /\ m.halfedges[m.halfedges[h].twin].face \in LiveFaces(m)

\* C27: triangulating a closed, consistently oriented manifold mesh that
\* mixes triangles and larger polygons leaves a closed mesh: no boundary
\* face is created, and every halfedge of a live non-boundary face has a
\* twin that belongs to a live non-boundary face
C27_TriangulateClosed ==
    (TriangulateDone /\ ClosedManifold(pre) /\ Mixed(pre)) =>
        /\ NoBoundaryFaces(mesh)
        /\ LiveTwins(mesh)

\* ------------------------------------------------------------------------
\* the vertices that share an edge of a live face of m with v
SharingEdge(m, v) ==
    UNION {{u \in 1..Len(m.vertices) :
               \E vs \in {Face_vertices(m, f)} :
                   \E i \in 1..Len(vs) :
                       {vs[i], vs[(i % Len(vs)) + 1]} = {u, v} /\ u # v}
           : f \in LiveFaces(m)}

SeqRange(s) == {s[i] : i \in 1..Len(s)}

\* C28: after triangulate() has split a face of a closed manifold mesh,
\* degree() and neighbors() of every vertex describe the triangulated mesh:
\* degree is the number of distinct vertices sharing an edge of a live face
\* with the vertex and neighbors lists those vertices
C28_DegreeAfterTriangulate ==
    (TriangulateDone /\ ClosedManifold(pre)) =>
        \A v \in 1..Len(mesh.vertices) :
            /\ VertexWalkReturns(mesh, v)
            /\ Vertex_degree(mesh, v) = Cardinality(SharingEdge(mesh, v))
            /\ SeqRange(Vertex_neighbors(mesh, v)) = SharingEdge(mesh, v)

\* ------------------------------------------------------------------------
AllTriangles(m) == \A f \in LiveFaces(m) : Len(Face_vertices(m, f)) = 3

\* v is a corner of a live face of m
InSomeFace(m, v) == \E f \in LiveFaces(m) : v \in SeqRange(Face_vertices(m, f))

\* what C29 asks of the result of subdivide_loop
LoopShape ==
    /\ Len(mesh.vertices) = Len(pre.vertices) + Len(pre.edges)
    /\ NoBoundaryFaces(mesh)
    /\ \A v \in 1..Len(mesh.vertices) : InSomeFace(mesh, v)

\* C29: subdivide_loop on a closed, consistently oriented manifold triangle
\* mesh with V vertices and E edges, every vertex in a face, leaves V + E
\* vertices, no boundary face, and every vertex in some face, also when two
\* vertices of the input have equal positions
C29_LoopManifold ==
    (LoopDone /\ ClosedManifold(pre) /\ AllTriangles(pre)) => LoopShape

\* the same with the positions of the input pairwise different
C29_LoopManifoldDistinct ==
    (LoopDone /\ ClosedManifold(pre) /\ AllTriangles(pre)
        /\ DistinctPositions(pre)) => LoopShape

\* ------------------------------------------------------------------------
\* the builder has run in the last call and the call has returned; the
\* faces it made are base + 1 .. base + Len(built.faces)
BuilderRan == outcome = "returned" /\ op # "save_obj" /\ built.faces # <<>>

\* the input loop from its second vertex on, the first vertex last
FromSecond(loop) == [i \in 1..Len(loop) |-> loop[(i % Len(loop)) + 1]]

\* C30: for a face the builder made from the loop [v0, ..., v(n-1)],
\* Face.vertices() returns [v1, ..., v(n-1), v0], and Face.edges()[i] is the
\* edge that joins the i-th returned vertex and its cyclic predecessor: every
\* halfedge of that edge runs between the two, and in a mesh of one build
\* every halfedge between the two is on that edge
C30_FaceOrder ==
    BuilderRan =>
      \E keys \in {KeysOf(mesh)}, inner \in {InteriorHalfedges(mesh)} :
        /\ Computed(keys) /\ Computed(inner)
        /\ \A k \in 1..Len(built.faces) :
            \E vs \in {Face_vertices(mesh, built.base + k)} :
                \E es \in {Face_edges(mesh, built.base + k)} :
                    /\ vs = FromSecond(built.faces[k])
                    /\ Len(es) = Len(vs)
                    /\ \A i \in 1..Len(vs) :
                          \E ends \in {{vs[i], vs[((i + Len(vs) - 2) % Len(vs)) + 1]}} :
                              /\ es[i] # None
                              /\ \E g \in inner :
                                    mesh.halfedges[g].edge = es[i]
                              /\ \A g \in inner :
                                    mesh.halfedges[g].edge = es[i]
                                        => keys[g] = ends
                              /\ OneBuild =>
                                    \A g \in inner :
                                        keys[g] = ends
                                            => mesh.halfedges[g].edge = es[i]

C30_Witness ==
    /\ BuilderRan
    /\ \E j, k \in 1..Len(built.faces) :
          /\ Len(built.faces[j]) = 3
          /\ Len(built.faces[k]) = 4
          /\ Face_vertices(mesh, built.base + k) = FromSecond(built.faces[k])
          /\ Len(Face_edges(mesh, built.base + j)) = 3

====
